---- MODULE Spec2Model ----
(***************************************************************************)
(* The density-based calibration engine of                                 *)
(* engines/hide_promtp_wtp_and_tap_engine.py: the per-class distribution   *)
(* stores, the two Wasserstein distance matrices and their fill step, the  *)
(* per-task driver train_and_evaluate and the classifier calibration      *)
(* train_task_adaptive_prediction.                                         *)
(*                                                                         *)
(* Tensors are abstracted to what the control flow reads of them: a        *)
(* distance is a value of 0..MaxDist (0 is the value the fill treats as    *)
(* "not computed"), a class distribution records the task whose model     *)
(* produced it and how many of its centroids have a non-zero variance, a   *)
(* synthetic data set is the sequence of its labels.                       *)
(*                                                                         *)
(* Spec is the driver; SpecFill calls the estimators and fills directly;   *)
(* SpecGather runs one estimator on several ranks, split at dist.barrier   *)
(* and dist.all_gather; SpecCalls applies one function (subsup_loss,       *)
(* gmm_sample, one epoch of calibration sampling, MHD_cls, wsd_gmm_d) to   *)
(* arguments drawn from bounded sets.                                      *)
(***************************************************************************)
EXTENDS Integers, Sequences, FiniteSets, TLC

\* ------------------------------------------------------------ bounds
NumTasks == 3        \* args.num_tasks
MaxDist == 1         \* distances drawn by wsd_gmm_s range over 0..MaxDist
Epochs == 1          \* args.epochs
CrctEpochs == 2      \* args.crct_epochs
NCentroids == 1      \* args.n_centroids
BatchSize == 1       \* args.batch_size
WorldSize == 2       \* args.world_size in the worker-level specification
MaxCentroids == 2    \* args.n_centroids in the worker-level and sampler specifications
MaxBatch == 2        \* rows of a minibatch handed to the loss functions
MaxSets == 2         \* len(current_llist), the taxonomy's label subsets
MaxLoss == 2         \* values of a contrastive loss with a positive pair: 1..MaxLoss
MaxCount == 2        \* num_sampled_pcls handed to a sampler called directly

\* ------------------------------------------------------------ configuration
\* the values of args.ca_storage_efficient_method the branches compare with
Recognized == {"covariance", "variance", "multi-centroid"}

\* the values the option is given: the three above and one that is none of them
Modes == Recognized \cup {"other"}

\* class_mask: task t introduces the single class t (disjoint class sets)
class_mask == [t \in 0..(NumTasks - 1) |-> <<t>>]

Tasks == 0..(NumTasks - 1)
nb_classes == NumTasks
Classes == 0..(nb_classes - 1)
Dist == 0..MaxDist

None == [none |-> TRUE]

RangeOf(s) == {s[k] : k \in 1..Len(s)}

RECURSIVE SetToSeq(_)
SetToSeq(S) ==
    IF S = {} THEN <<>>
    ELSE LET m == CHOOSE x \in S : \A y \in S : x <= y
         IN <<m>> \o SetToSeq(S \ {m})

VARIABLES
    mode,            \* args.ca_storage_efficient_method
    not_train_ca,    \* args.not_train_ca
    train_mask,      \* args.train_mask
    pc,              \* position of train_and_evaluate in the current task
    task_id,         \* loop variable of train_and_evaluate
    epoch,           \* epochs of the running loop (training or calibration) done
    cls_mean, cls_cov, cls_keys,              \* adapting-model store (dict + key order)
    org_cls_mean, org_cls_cov, org_keys,      \* original-backbone store
    WSDMatrix,       \* distances in the original latent space
    WSDMatrix_eval,  \* distances in the adapting model's latent space
    old_labels,      \* the global old_data / old_labels buffer (row labels)
    asg,             \* per matrix: the (i,j) entries assigned so far
    dup,             \* per matrix: a distance was computed for a pair computed before
    nzc,             \* per matrix: a distance was computed for a non-zero entry
    refilled,        \* per matrix: the last fill repeated one on the same store
    replay,          \* rows of the replay slice of the last cluster_loss call
    ca,              \* last calibration epoch: minibatches built and steps taken
    err,             \* why the process stopped, "none" while it runs
    log,             \* the driver's completed phases, in order
    checkpoint,      \* the state_dict last saved
    wk,              \* worker-level run: each rank's position, tensors and store
    bar,             \* worker-level run: dist.barrier() calls entered, per rank
    sent,            \* worker-level run: tensors handed to dist.all_gather, per rank
    call,            \* direct call of one function: its name and arguments
    ret              \* direct call of one function: what it returned or raised

vars == <<mode, not_train_ca, pc, task_id, epoch, cls_mean, cls_cov, cls_keys,
          org_cls_mean, org_cls_cov, org_keys, WSDMatrix, WSDMatrix_eval,
          old_labels, asg, dup, nzc, refilled, replay, ca, err, log, checkpoint,
          train_mask, wk, bar, sent, call, ret>>

drv == <<task_id, epoch, old_labels, replay, ca, log, checkpoint>>
Min(a, b) == IF a <= b THEN a ELSE b
cfg == <<mode, not_train_ca, train_mask>>
side == <<wk, bar, sent, call, ret>>
orgStore == <<org_cls_mean, org_cls_cov, org_keys>>
clsStore == <<cls_mean, cls_cov, cls_keys>>

ZeroMatrix == [i \in Classes |-> [j \in Classes |-> 0]]
EmptyStore == [c \in Classes |-> None]

\* ------------------------------------------------------------ sampling
\* gmm_sample iterates range(len(means1)) and keeps the clusters whose
\* var.mean() is not 0.  With a tensor mean (covariance / variance mode)
\* mean.shape[0] of a 0-dim element raises; with no cluster kept torch.cat
\* of the empty list raises.
gmm_sample_raises(m, cov) ==
    \/ m.kind # "multi-centroid"
    \/ cov.nondeg = 0

num_sampled_pcls == BatchSize * 5

gmm_sample(m, cov, n) == cov.nondeg * n

\* wsd_gmm_s: the transport cost between two fresh sample sets; the value
\* depends on the draws, so every distance of Dist is a possible result, the
\* value 0 (two coinciding sample sets) included.
wsd_gmm_s_raises(m1, m2, c1, c2) ==
    gmm_sample_raises(m1, c1) \/ gmm_sample_raises(m2, c2)

wsd_gmm_s(m1, m2, c1, c2) == Dist

\* ------------------------------------------------------------ matrix fill
\* "if WSDMatrix[i][j] != 0: continue"
MutSkipNever(W, i, j) == FALSE

MutSkipInverted(W, i, j) == W[i][j] = 0

MutSkipDiagonal(W, i, j) == W[i][j] # 0 \/ i = j

SkipPair(W, i, j) == W[i][j] # 0

\* "WSDMatrix[i][j] = d ; WSDMatrix[j][i] = WSDMatrix[i][j]"
MutWriteOneSided(W, i, j, d) == [W EXCEPT ![i][j] = d]

WritePair(W, i, j, d) ==
    LET W1 == [W EXCEPT ![i][j] = d]
    IN [W1 EXCEPT ![j][i] = W1[i][j]]

\* the k-th (i, j) of "for i in class_ids: for j in class_ids"
PairAt(keys, k) ==
    LET n == Len(keys)
    IN <<keys[((k - 1) \div n) + 1], keys[((k - 1) % n) + 1]>>

\* One iteration of the loop body on a fill state
\* s = [W, asg, dup, nzc, err]: every result the draw allows.
FillStep(s, i, j, means, covs) ==
    IF s.err THEN {s}
    ELSE IF SkipPair(s.W, i, j) THEN {s}
    ELSE IF wsd_gmm_s_raises(means[i], means[j], covs[i], covs[j])
         THEN {[s EXCEPT !.err = TRUE]}
    ELSE {[W   |-> WritePair(s.W, i, j, d),
           asg |-> s.asg \cup {<<i, j>>, <<j, i>>},
           dup |-> s.dup \/ (<<i, j>> \in s.asg),
           nzc |-> s.nzc \/ (s.W[i][j] # 0),
           err |-> FALSE] : d \in wsd_gmm_s(means[i], means[j], covs[i], covs[j])}

RECURSIVE FillFrom(_, _, _, _, _)
FillFrom(S, keys, k, means, covs) ==
    IF k > Len(keys) * Len(keys) THEN S
    ELSE LET p == PairAt(keys, k)
         IN FillFrom(UNION {FillStep(s, p[1], p[2], means, covs) : s \in S},
                     keys, k + 1, means, covs)

\* every outcome of one run of the fill loop
FillResults(W, a, d, z, keys, means, covs) ==
    FillFrom({[W |-> W, asg |-> a, dup |-> d, nzc |-> z, err |-> FALSE]},
             keys, 1, means, covs)

\* update_WSM over the given original-backbone store
update_WSM(keys, means, covs) ==
    \E r \in FillResults(WSDMatrix, asg.org, dup.org, nzc.org, keys, means, covs) :
        /\ WSDMatrix' = r.W
        /\ asg' = [asg EXCEPT !.org = r.asg]
        /\ dup' = [dup EXCEPT !.org = r.dup]
        /\ nzc' = [nzc EXCEPT !.org = r.nzc]
        /\ err' = IF r.err THEN "sample" ELSE "none"
        /\ UNCHANGED WSDMatrix_eval

\* update_WSM_eval over the given adapting-model store
update_WSM_eval(keys, means, covs) ==
    \E r \in FillResults(WSDMatrix_eval, asg.eval, dup.eval, nzc.eval, keys, means, covs) :
        /\ WSDMatrix_eval' = r.W
        /\ asg' = [asg EXCEPT !.eval = r.asg]
        /\ dup' = [dup EXCEPT !.eval = r.dup]
        /\ nzc' = [nzc EXCEPT !.eval = r.nzc]
        /\ err' = IF r.err THEN "sample" ELSE "none"
        /\ UNCHANGED WSDMatrix

\* ------------------------------------------------------------ density estimation
\* dict assignment d[k] = v keeps the position of a key already present
AddKeys(keys, cm) ==
    keys \o SelectSeq(cm, LAMBDA c : c \notin RangeOf(keys))

MeanEntry(t) == [kind |-> mode, task |-> t]
CovEntry(t, nd) == [kind |-> mode, task |-> t, nondeg |-> nd]

\* the classes one call of an estimator processes: "for cls_id in class_mask"
MutSeenSoFar(cm, keys) == keys \o SelectSeq(cm, LAMBDA c : c \notin RangeOf(keys))

ScopeOf(cm, keys) == cm

\* covariance / variance branch of _compute_mean_org: the regulariser reads
\* cls_mean[cls_id].shape, the ADAPTING model's entry, after org_cls_mean[cls_id]
\* has been stored; the first class without such an entry raises KeyError.
KeyErrorAt(cm) ==
    LET bad == {k \in 1..Len(cm) : cls_mean[cm[k]] = None}
    IN IF bad = {} THEN 0 ELSE CHOOSE k \in bad : \A l \in bad : k <= l

\* The three mode tests are "if"s without an "else": under a mode that is none
\* of the three nothing is stored for the class, and the fill runs over the
\* store as it was.
_compute_mean_org(cm0, t) ==
    LET cm == ScopeOf(cm0, org_keys) IN
    IF mode \notin Recognized THEN
        /\ UNCHANGED <<org_cls_mean, org_cls_cov, org_keys>>
        /\ update_WSM(org_keys, org_cls_mean, org_cls_cov)
    ELSE IF mode = "multi-centroid" THEN
        \E nd \in [RangeOf(cm) -> 0..NCentroids] :
            LET means == [c \in Classes |-> IF c \in RangeOf(cm) THEN MeanEntry(t)
                                            ELSE org_cls_mean[c]]
                covs == [c \in Classes |-> IF c \in RangeOf(cm) THEN CovEntry(t, nd[c])
                                           ELSE org_cls_cov[c]]
                keys == AddKeys(org_keys, cm)
            IN /\ org_cls_mean' = means
               /\ org_cls_cov' = covs
               /\ org_keys' = keys
               /\ update_WSM(keys, means, covs)
    ELSE
        LET ke == KeyErrorAt(cm)
            done == IF ke = 0 THEN RangeOf(cm) ELSE {cm[k] : k \in 1..(ke - 1)}
            named == IF ke = 0 THEN RangeOf(cm) ELSE {cm[k] : k \in 1..ke}
            means == [c \in Classes |-> IF c \in named THEN MeanEntry(t)
                                        ELSE org_cls_mean[c]]
            covs == [c \in Classes |-> IF c \in done THEN CovEntry(t, 1)
                                       ELSE org_cls_cov[c]]
            keys == AddKeys(org_keys, SubSeq(cm, 1, IF ke = 0 THEN Len(cm) ELSE ke))
        IN /\ org_cls_mean' = means
           /\ org_cls_cov' = covs
           /\ org_keys' = keys
           /\ IF ke = 0 THEN update_WSM(keys, means, covs)
              ELSE /\ err' = "KeyError"
                   /\ UNCHANGED <<WSDMatrix, WSDMatrix_eval, asg, dup, nzc>>

_compute_mean(cm0, t) ==
    LET cm == ScopeOf(cm0, cls_keys) IN
    IF mode \notin Recognized THEN
        /\ UNCHANGED <<cls_mean, cls_cov, cls_keys>>
        /\ update_WSM_eval(cls_keys, cls_mean, cls_cov)
    ELSE
    \E nd \in [RangeOf(cm) -> IF mode = "multi-centroid" THEN 0..NCentroids ELSE {1}] :
        LET means == [c \in Classes |-> IF c \in RangeOf(cm) THEN MeanEntry(t)
                                        ELSE cls_mean[c]]
            covs == [c \in Classes |-> IF c \in RangeOf(cm) THEN CovEntry(t, nd[c])
                                       ELSE cls_cov[c]]
            keys == AddKeys(cls_keys, cm)
        IN /\ cls_mean' = means
           /\ cls_cov' = covs
           /\ cls_keys' = keys
           /\ update_WSM_eval(keys, means, covs)

\* ------------------------------------------------------------ calibration
RECURSIVE ClassesUpTo(_)
ClassesUpTo(t) == IF t < 0 THEN <<>> ELSE ClassesUpTo(t - 1) \o class_mask[t]

Repeat(c, k) == [x \in 1..k |-> c]

\* the labels of one epoch's synthetic data set, in the order they are appended:
\* num_sampled_pcls per class, or per kept cluster in multi-centroid mode
RECURSIVE LabelsOf(_)
LabelsOf(cs) ==
    IF cs = <<>> THEN <<>>
    ELSE LET c == Head(cs)
             k == IF mode = "multi-centroid"
                  THEN gmm_sample(cls_mean[c], cls_cov[c], num_sampled_pcls)
                  ELSE num_sampled_pcls
         IN Repeat(c, k) \o LabelsOf(Tail(cs))

\* "for i in range(task_id): crct_num += len(class_mask[i])"
crct_num(t) == Len(ClassesUpTo(t - 1))

\* rows of inputs[_iter * n : (_iter + 1) * n] for a data set of R rows
SliceRows(iter, R) ==
    Min((iter + 1) * num_sampled_pcls, R) - Min(iter * num_sampled_pcls, R)

\* "old_labels = sampled_label.detach().clone()" in train_task_adaptive_prediction
\* binds a name local to that function (it has no global statement): the
\* module-level buffer keeps the value it had.
old_labels_after_calibration(buffer, sampled) == buffer

\* the classes whose logits a calibration step of task t leaves as they are:
\* "if args.train_mask and class_mask is not None" fills the logits of every
\* class outside class_mask[0..task_id] with -inf; otherwise nothing is masked
MutMaskPrevious(t) == IF train_mask THEN RangeOf(ClassesUpTo(t - 1)) ELSE Classes

Unmasked(t) == IF train_mask THEN RangeOf(ClassesUpTo(t)) ELSE Classes

\* the terms of the loss of a calibration step:
\* "loss = criterion(logits, tgt)", criterion being torch.nn.CrossEntropyLoss
MutWithContrastive == {"cross_entropy", "cluster_loss"}

CalibrationLoss == {"cross_entropy"}

\* "if not math.isfinite(loss.item()): sys.exit(1)" comes before zero_grad,
\* backward and optimizer.step: the optimizer steps an epoch has taken when the
\* loss of its k-th step (from 0) is found non-finite
MutStepThenExit(k) == k + 1

StepsAtExit(k) == k

\* the outcomes of the whole of train_task_adaptive_prediction for task t: it
\* runs every epoch, or exits at the first step whose loss is not finite (a
\* step on an empty slice has a NaN loss); cls_mean[c_id] of a class without
\* an entry raises KeyError while the first data set is built; under a
\* mode that is none of the three the first epoch raises NotImplementedError
CalibrationOutcomes(t) ==
    IF CrctEpochs = 0
    THEN {[task |-> t, epochs |-> 0, steps |-> 0, losses |-> 0, rows |-> 0,
           used |-> 0, unmasked |-> {}, loss |-> {}, err |-> "none"]}
    ELSE IF mode \notin Recognized
    THEN {[task |-> t, epochs |-> 0, steps |-> 0, losses |-> 0, rows |-> 0,
           used |-> 0, unmasked |-> {}, loss |-> {}, err |-> "NotImplementedError"]}
    ELSE IF \E c \in RangeOf(ClassesUpTo(t)) : cls_mean[c] = None
    THEN {[task |-> t, epochs |-> 0, steps |-> 0, losses |-> 0, rows |-> 0,
           used |-> 0, unmasked |-> {}, loss |-> {}, err |-> "KeyError"]}
    ELSE
    LET R == Len(LabelsOf(ClassesUpTo(t)))
        n == crct_num(t)
        full == \A k \in 0..(n - 1) : SliceRows(k, R) > 0
        fine == IF full
                THEN {[task |-> t, epochs |-> CrctEpochs, steps |-> n, losses |-> n,
                       rows |-> R, used |-> Min(n * num_sampled_pcls, R),
                       unmasked |-> IF n > 0 THEN Unmasked(t) ELSE {},
                       loss |-> IF n > 0 THEN CalibrationLoss ELSE {}, err |-> "none"]}
                ELSE {}
        exits == {[task |-> t, epochs |-> e - 1, steps |-> StepsAtExit(k),
                   losses |-> k + 1, rows |-> R, used |-> Min(k * num_sampled_pcls, R),
                   unmasked |-> Unmasked(t), loss |-> CalibrationLoss,
                   err |-> "loss"] :
                    e \in 1..CrctEpochs,
                    k \in {k \in 0..(n - 1) : \A l \in 0..(k - 1) : SliceRows(l, R) > 0}}
    IN fine \cup exits

\* ------------------------------------------------------------ the driver
\* "if task_id > 0 and not args.not_train_ca"
MutCalibratesEveryTask(t) == ~not_train_ca

RunsCalibration(t) == t > 0 /\ ~not_train_ca

\* the phase that follows the epoch loop of a task
MutAfterTrainingSkipsMean(t) == IF RunsCalibration(t) THEN "preca" ELSE "eval"

AfterTraining(t) == "mean"

Logged(ev) == Append(log, ev)

\* the first phase of a task: the original-model estimator is called at the
\* top of the loop body, before "for epoch in range(args.epochs)"
MutTrainFirst(t) == "train"

TaskStart(t) == "org"

\* the labels of an ordinary-training batch of task t in cluster_loss: the
\* targets of the task, then the first n rows of old_labels
BatchLabels(t, n) ==
    RangeOf(class_mask[t]) \cup RangeOf(SubSeq(old_labels, 1, Min(n, Len(old_labels))))

\* the entries Gamma[labelZ[i], labelZ[j]] that supervised_contrastive_loss
\* reads for the samples of a label set of subsup_loss, Gamma being
\* 1 / np.exp(WSDMatrix / args.delta)
GammaLookups(t, n) == BatchLabels(t, n) \X BatchLabels(t, n)

\* "Gamma = 1 / np.exp(WSDMatrix / args.delta)", entry by entry: positive and
\* strictly decreasing in the distance.  The weights are written in units of
\* the weight of the largest distance, for the delta with exp(1 / delta) = 2.
Gamma(W) == [a \in Classes |-> [b \in Classes |-> 2 ^ (MaxDist - W[a][b])]]

\* the body of "for i in range(n_sample): for j in range(n_sample)" in
\* supervised_contrastive_loss
WeightAt(wm, labelZ, G, i, j) ==
    IF wm[i][j] # 0 THEN wm
    ELSE LET w1 == [wm EXCEPT ![i][j] = G[labelZ[i]][labelZ[j]]]
         IN [w1 EXCEPT ![j][i] = w1[i][j]]

RECURSIVE WeightFrom(_, _, _, _)
WeightFrom(wm, labelZ, G, k) ==
    LET n_sample == Len(labelZ)
    IN IF k > n_sample * n_sample THEN wm
       ELSE WeightFrom(WeightAt(wm, labelZ, G, ((k - 1) \div n_sample) + 1,
                                ((k - 1) % n_sample) + 1),
                       labelZ, G, k + 1)

\* weight_matrix of supervised_contrastive_loss when Gamma is given
weight_matrix(labelZ, G) ==
    WeightFrom([i \in 1..Len(labelZ) |-> [j \in 1..Len(labelZ) |-> 0]], labelZ, G, 1)

Init ==
    /\ mode \in Modes
    /\ not_train_ca \in BOOLEAN
    /\ train_mask \in BOOLEAN
    /\ wk = <<>> /\ bar = <<>> /\ sent = <<>>
    /\ call = None /\ ret = None
    /\ pc = TaskStart(0)
    /\ task_id = 0
    /\ epoch = 0
    /\ cls_mean = EmptyStore /\ cls_cov = EmptyStore /\ cls_keys = <<>>
    /\ org_cls_mean = EmptyStore /\ org_cls_cov = EmptyStore /\ org_keys = <<>>
    /\ WSDMatrix = ZeroMatrix
    /\ WSDMatrix_eval = ZeroMatrix
    /\ old_labels = <<>>
    /\ asg = [org |-> {}, eval |-> {}]
    /\ dup = [org |-> FALSE, eval |-> FALSE]
    /\ nzc = [org |-> FALSE, eval |-> FALSE]
    /\ refilled = [org |-> FALSE, eval |-> FALSE]
    /\ replay = 0
    /\ ca = [task |-> 0, epochs |-> 0, steps |-> 0, losses |-> 0, rows |-> 0,
             used |-> 0, unmasked |-> {}, loss |-> {}, err |-> "none"]
    /\ err = "none"
    /\ log = <<>>
    /\ checkpoint = None

\* _compute_mean_org(..., class_mask[task_id]) at the top of the task
ComputeMeanOrg ==
    /\ pc = "org"
    /\ _compute_mean_org(class_mask[task_id], task_id)
    /\ pc' = IF err' # "none" THEN "crashed"
             ELSE IF Epochs = 0 THEN AfterTraining(task_id) ELSE "train"
    /\ epoch' = 0
    /\ log' = IF err' # "none" THEN log ELSE Logged(<<"org", task_id>>)
    /\ UNCHANGED <<side, cfg, clsStore, task_id, old_labels, refilled, replay, ca, checkpoint>>

\* one train_one_epoch of "for epoch in range(args.epochs)"; cluster_loss
\* concatenates the first old_bs rows of the shuffled buffer to each minibatch
TrainEpoch ==
    /\ pc = "train"
    /\ epoch < Epochs
    /\ replay' = Min(BatchSize * 5, Len(old_labels))
    /\ \E finite \in BOOLEAN :
        IF finite
        THEN /\ epoch' = epoch + 1
             /\ pc' = IF epoch + 1 = Epochs THEN AfterTraining(task_id) ELSE "train"
             /\ log' = Logged(<<"epoch", task_id>>)
             /\ err' = "none"
        ELSE /\ pc' = "crashed"
             /\ err' = "loss"
             /\ UNCHANGED <<epoch, log>>
    /\ UNCHANGED <<side, cfg, clsStore, orgStore, WSDMatrix, WSDMatrix_eval, task_id,
                   old_labels, asg, dup, nzc, refilled, ca, checkpoint>>

\* _compute_mean(..., class_mask[task_id]) after the epoch loop
ComputeMean ==
    /\ pc = "mean"
    /\ _compute_mean(class_mask[task_id], task_id)
    /\ pc' = IF err' # "none" THEN "crashed"
             ELSE IF RunsCalibration(task_id) THEN "preca" ELSE "eval"
    /\ log' = IF err' # "none" THEN log ELSE Logged(<<"mean", task_id>>)
    /\ UNCHANGED <<side, cfg, orgStore, task_id, epoch, old_labels, refilled, replay, ca,
                   checkpoint>>

\* evaluate_till_now into pre_ca_acc_matrix
PreCAEval ==
    /\ pc = "preca"
    /\ pc' = "ca"
    /\ log' = Logged(<<"preca", task_id>>)
    /\ UNCHANGED <<side, cfg, clsStore, orgStore, WSDMatrix, WSDMatrix_eval, task_id, epoch,
                   old_labels, asg, dup, nzc, refilled, replay, ca, err, checkpoint>>

TrainTaskAdaptivePrediction ==
    /\ pc = "ca"
    /\ \E o \in CalibrationOutcomes(task_id) :
        /\ ca' = o
        /\ old_labels' = old_labels_after_calibration(
                             old_labels, LabelsOf(ClassesUpTo(task_id)))
        /\ err' = o.err
        /\ IF o.err # "none"
           THEN /\ pc' = "crashed"
                /\ log' = log
           ELSE /\ pc' = "eval"
                /\ log' = Logged(<<"ca", task_id>>)
    /\ UNCHANGED <<side, cfg, clsStore, orgStore, WSDMatrix, WSDMatrix_eval, task_id, epoch,
                   asg, dup, nzc, refilled, replay, checkpoint>>

\* evaluate_till_now into acc_matrix
FinalEval ==
    /\ pc = "eval"
    /\ pc' = "ckpt"
    /\ log' = Logged(<<"eval", task_id>>)
    /\ UNCHANGED <<side, cfg, clsStore, orgStore, WSDMatrix, WSDMatrix_eval, task_id, epoch,
                   old_labels, asg, dup, nzc, refilled, replay, ca, err, checkpoint>>

\* the dictionary the driver saves at the end of a task; the model, optimizer,
\* args and taxonomy items are opaque here
state_dict ==
    [model |-> "model", optimizer |-> "optimizer", args |-> "args",
     WSD_matrix |-> WSDMatrix_eval, current_llist |-> "current_llist",
     cls_mean |-> cls_mean, cls_cov |-> cls_cov]

\* the keys of state_dict whose value is a distance matrix, and those whose
\* value is a distribution store
MatrixKeys == {"WSD_matrix"}
StoreKeys == {"cls_mean", "cls_cov"}

\* utils.save_on_master(state_dict, checkpoint_path), then the next task
SaveCheckpoint ==
    /\ pc = "ckpt"
    /\ checkpoint' = [task |-> task_id, state_dict |-> state_dict]
    /\ log' = Logged(<<"ckpt", task_id>>)
    /\ IF task_id + 1 < NumTasks
       THEN /\ task_id' = task_id + 1
            /\ pc' = TaskStart(task_id + 1)
       ELSE /\ task_id' = task_id
            /\ pc' = "done"
    /\ UNCHANGED <<side, cfg, clsStore, orgStore, WSDMatrix, WSDMatrix_eval, epoch,
                   old_labels, asg, dup, nzc, refilled, replay, ca, err>>

Next ==
    \/ ComputeMeanOrg
    \/ TrainEpoch
    \/ ComputeMean
    \/ PreCAEval
    \/ TrainTaskAdaptivePrediction
    \/ FinalEval
    \/ SaveCheckpoint

Spec == Init /\ [][Next]_vars

\* ------------------------------------------------------------ the fill on its own
\* One estimator and its fill step called directly, in any order, with any
\* non-empty group of classes its store has not seen yet.  A behaviour drives
\* either the original-backbone side (pc = "call_org") or the adapting-model
\* side (pc = "call_eval"): the two sides share no state the fill reads.
NewGroups(keys) == {G \in SUBSET (Classes \ RangeOf(keys)) : G # {}}

InitFill ==
    /\ mode \in Modes
    /\ not_train_ca = FALSE
    /\ train_mask = TRUE
    /\ wk = <<>> /\ bar = <<>> /\ sent = <<>>
    /\ call = None /\ ret = None
    /\ pc \in {"call_org", "call_eval"}
    /\ task_id = 0
    /\ epoch = 0
    /\ cls_mean = EmptyStore /\ cls_cov = EmptyStore /\ cls_keys = <<>>
    /\ org_cls_mean = EmptyStore /\ org_cls_cov = EmptyStore /\ org_keys = <<>>
    /\ WSDMatrix = ZeroMatrix
    /\ WSDMatrix_eval = ZeroMatrix
    /\ old_labels = <<>>
    /\ asg = [org |-> {}, eval |-> {}]
    /\ dup = [org |-> FALSE, eval |-> FALSE]
    /\ nzc = [org |-> FALSE, eval |-> FALSE]
    /\ refilled = [org |-> FALSE, eval |-> FALSE]
    /\ replay = 0
    /\ ca = [task |-> 0, epochs |-> 0, steps |-> 0, losses |-> 0, rows |-> 0,
             used |-> 0, unmasked |-> {}, loss |-> {}, err |-> "none"]
    /\ err = "none"
    /\ log = <<>>
    /\ checkpoint = None

CallComputeMeanOrg ==
    /\ pc = "call_org"
    /\ \E G \in NewGroups(org_keys) : _compute_mean_org(SetToSeq(G), Len(org_keys))
    /\ pc' = IF err' # "none" THEN "crashed" ELSE pc
    /\ refilled' = [refilled EXCEPT !.org = FALSE]
    /\ UNCHANGED <<side, cfg, clsStore, drv>>

CallComputeMean ==
    /\ pc = "call_eval"
    /\ \E G \in NewGroups(cls_keys) : _compute_mean(SetToSeq(G), Len(cls_keys))
    /\ pc' = IF err' # "none" THEN "crashed" ELSE pc
    /\ refilled' = [refilled EXCEPT !.eval = FALSE]
    /\ UNCHANGED <<side, cfg, orgStore, drv>>

CallUpdateWSM ==
    /\ pc = "call_org"
    /\ org_keys # <<>>
    /\ update_WSM(org_keys, org_cls_mean, org_cls_cov)
    /\ pc' = IF err' # "none" THEN "crashed" ELSE pc
    /\ refilled' = [refilled EXCEPT !.org = TRUE]
    /\ UNCHANGED <<side, cfg, clsStore, orgStore, drv>>

CallUpdateWSMEval ==
    /\ pc = "call_eval"
    /\ cls_keys # <<>>
    /\ update_WSM_eval(cls_keys, cls_mean, cls_cov)
    /\ pc' = IF err' # "none" THEN "crashed" ELSE pc
    /\ refilled' = [refilled EXCEPT !.eval = TRUE]
    /\ UNCHANGED <<side, cfg, clsStore, orgStore, drv>>

NextFill ==
    \/ CallComputeMeanOrg
    \/ CallComputeMean
    \/ CallUpdateWSM
    \/ CallUpdateWSMEval

SpecFill == InitFill /\ [][NextFill]_vars

\* ------------------------------------------------------------ the estimators on W workers
\* Every rank runs the same estimator over the same class group; the only
\* cross-process steps are dist.barrier() and dist.all_gather().  A rank is the
\* record [pc, est, k, features_per_cls, features_per_cls_list, rng, mean, cov]:
\* k is the position in "for cls_id in class_mask", rng the state of the
\* process's global numpy generator, which nothing in the engine seeds.
Workers == 0..(WorldSize - 1)
Seeds == 0..(MaxCentroids - 1)
GatherClasses == <<0, 1>>
NoStore == [c \in RangeOf(GatherClasses) |-> None]

\* "features_per_cls = torch.cat(features_per_cls, dim=0)": the rank's own rows
LocalFeatures(w, c) == [rank |-> w, cls |-> c]

\* "[torch.zeros_like(features_per_cls) for _ in range(args.world_size)]"
ZerosList == [r \in 1..WorldSize |-> "zeros"]

\* dist.all_gather fills slot r of the list with the tensor rank r handed to
\* its n-th call
Gathered(n) == [r \in 1..WorldSize |-> sent[r - 1][n]]

\* KMeans(n_clusters=args.n_centroids) is built without random_state: the
\* labels it gives the clusters of one data set depend on the generator state
KMeans(X, rng) == [i \in 1..MaxCentroids |-> ((i - 1 + rng) % MaxCentroids) + 1]

\* the mean and the spread one rank derives from its gathered list
StatMean(w) ==
    IF mode = "multi-centroid"
    THEN [kind |-> mode, of |-> wk[w].features_per_cls_list,
          clusters |-> KMeans(wk[w].features_per_cls_list, wk[w].rng)]
    ELSE [kind |-> mode, of |-> wk[w].features_per_cls_list]

StatCov(w) == StatMean(w)

InitGather ==
    /\ mode \in Modes
    /\ not_train_ca = FALSE
    /\ train_mask = TRUE
    /\ pc = "workers"
    /\ task_id = 0
    /\ epoch = 0
    /\ cls_mean = EmptyStore /\ cls_cov = EmptyStore /\ cls_keys = <<>>
    /\ org_cls_mean = EmptyStore /\ org_cls_cov = EmptyStore /\ org_keys = <<>>
    /\ WSDMatrix = ZeroMatrix
    /\ WSDMatrix_eval = ZeroMatrix
    /\ old_labels = <<>>
    /\ asg = [org |-> {}, eval |-> {}]
    /\ dup = [org |-> FALSE, eval |-> FALSE]
    /\ nzc = [org |-> FALSE, eval |-> FALSE]
    /\ refilled = [org |-> FALSE, eval |-> FALSE]
    /\ replay = 0
    /\ ca = [task |-> 0, epochs |-> 0, steps |-> 0, losses |-> 0, rows |-> 0,
             used |-> 0, unmasked |-> {}, loss |-> {}, err |-> "none"]
    /\ err = "none"
    /\ log = <<>>
    /\ checkpoint = None
    /\ \E est \in {"_compute_mean_org", "_compute_mean"} :
       \E seed \in [Workers -> Seeds] :
          wk = [w \in Workers |->
                  [pc |-> "features", est |-> est, k |-> 1,
                   features_per_cls |-> "none", features_per_cls_list |-> ZerosList,
                   rng |-> seed[w], mean |-> NoStore, cov |-> NoStore]]
    /\ bar = [w \in Workers |-> 0]
    /\ sent = [w \in Workers |-> <<>>]
    /\ call = None /\ ret = None

base == <<cfg, pc, task_id, epoch, clsStore, orgStore, WSDMatrix, WSDMatrix_eval,
          old_labels, asg, dup, nzc, refilled, replay, ca, err, log, checkpoint>>
rest == <<base, call, ret>>

\* the loop over data_loader_cls, torch.cat and the zero buffers
Features(w) ==
    /\ wk[w].pc = "features"
    /\ wk' = [wk EXCEPT ![w].features_per_cls = LocalFeatures(w, GatherClasses[wk[w].k]),
                        ![w].features_per_cls_list = ZerosList,
                        ![w].pc = "barrier"]
    /\ UNCHANGED <<rest, bar, sent>>

\* dist.barrier(): the call
EnterBarrier(w) ==
    /\ wk[w].pc = "barrier"
    /\ bar' = [bar EXCEPT ![w] = bar[w] + 1]
    /\ wk' = [wk EXCEPT ![w].pc = "in_barrier"]
    /\ UNCHANGED <<rest, sent>>

\* dist.barrier(): the return, once every rank has made the same call
LeaveBarrier(w) ==
    /\ wk[w].pc = "in_barrier"
    /\ \A r \in Workers : bar[r] >= bar[w]
    /\ wk' = [wk EXCEPT ![w].pc = "all_gather"]
    /\ UNCHANGED <<rest, bar, sent>>

\* dist.all_gather(features_per_cls_list, features_per_cls): the call
AllGatherSend(w) ==
    /\ wk[w].pc = "all_gather"
    /\ sent' = [sent EXCEPT ![w] = Append(sent[w], wk[w].features_per_cls)]
    /\ wk' = [wk EXCEPT ![w].pc = "in_all_gather"]
    /\ UNCHANGED <<rest, bar>>

\* dist.all_gather: the return, once every rank has handed in its tensor
AllGatherRecv(w) ==
    /\ wk[w].pc = "in_all_gather"
    /\ \A r \in Workers : Len(sent[r]) >= Len(sent[w])
    /\ wk' = [wk EXCEPT ![w].features_per_cls_list = Gathered(Len(sent[w])),
                        ![w].pc = "stats"]
    /\ UNCHANGED <<rest, bar, sent>>

\* the mode branches on the gathered list, then the next class; after the last
\* class the estimator goes on to the fill of the rank's own matrix, which has
\* no cross-process step
Stats(w) ==
    LET c == GatherClasses[wk[w].k]
        raises == wk[w].est = "_compute_mean_org" /\ mode \in {"covariance", "variance"}
        after == IF raises THEN "crashed"
                 ELSE IF wk[w].k = Len(GatherClasses) THEN "fill" ELSE "features"
    IN /\ wk[w].pc = "stats"
       /\ wk' = [wk EXCEPT
                    ![w].mean = IF mode \in Recognized
                                THEN [@ EXCEPT ![c] = StatMean(w)] ELSE @,
                    ![w].cov = IF mode \in Recognized /\ ~raises
                               THEN [@ EXCEPT ![c] = StatCov(w)] ELSE @,
                    ![w].rng = IF mode = "multi-centroid"
                               THEN (@ + 1) % MaxCentroids ELSE @,
                    ![w].k = IF raises THEN @ ELSE @ + 1,
                    ![w].pc = after]
       /\ UNCHANGED <<rest, bar, sent>>

NextGather ==
    \E w \in Workers :
        \/ Features(w)
        \/ EnterBarrier(w)
        \/ LeaveBarrier(w)
        \/ AllGatherSend(w)
        \/ AllGatherRecv(w)
        \/ Stats(w)

SpecGather == InitGather /\ [][NextGather]_vars

\* ------------------------------------------------------------ functions called directly
\* One call of one function on arguments drawn from bounded sets: call is the
\* record of the function's name and arguments, ret what the call produced.
SeqsUpTo(S, n) == UNION {[1..k -> S] : k \in 0..n}

\* "features[mask]" with mask = torch.isin(labels, label_subset): the rows whose
\* label is in the subset, in batch order
Restrict(labels, label_subset) == SelectSeq(labels, LAMBDA l : l \in label_subset)

\* positive_mask = label_mask & ~eye: two different rows with the same label
HasPositivePair(labels) ==
    \E i, j \in 1..Len(labels) : i # j /\ labels[i] = labels[j]

\* supervised_contrastive_loss: 0 when positive_mask.sum() == 0, else the mean
\* negative log-probability of the positive pairs, the value unit here
supervised_contrastive_loss(labels, unit) ==
    IF HasPositivePair(labels) THEN unit ELSE 0

\* "if len(subset_features) > 1: total_loss += loss"
SubsetTerm(labels, label_subset, unit) ==
    IF Len(Restrict(labels, label_subset)) > 1
    THEN supervised_contrastive_loss(Restrict(labels, label_subset), unit)
    ELSE 0

RECURSIVE total_loss(_, _, _)
total_loss(labels, label_sets, unit) ==
    IF label_sets = <<>> THEN 0
    ELSE SubsetTerm(labels, Head(label_sets), unit)
         + total_loss(labels, Tail(label_sets), unit)

\* "num_sets = len(label_sets)"
num_sets(labels, label_sets) == Len(label_sets)

\* "return total_loss / num_sets": the quotient as numerator and divisor; the
\* division of the float 0.0 by the int 0 raises ZeroDivisionError
subsup_loss(labels, label_sets, unit) ==
    IF num_sets(labels, label_sets) = 0
    THEN [err |-> "ZeroDivisionError", num |-> 0, den |-> 0]
    ELSE [err |-> "none", num |-> total_loss(labels, label_sets, unit),
          den |-> num_sets(labels, label_sets)]

\* the label subsets of a taxonomy level: non-empty, here of at most two classes
LabelSubsets == {S \in SUBSET Classes : S # {} /\ Cardinality(S) <= 2}

\* a taxonomy level as a list: its groups are distinct, listed in one order
RECURSIVE ListOf(_)
ListOf(G) ==
    IF G = {} THEN <<>>
    ELSE LET g == CHOOSE x \in G : TRUE IN <<g>> \o ListOf(G \ {g})

LabelSets == {ListOf(G) : G \in {H \in SUBSET LabelSubsets : Cardinality(H) <= MaxSets}}

SubsupLossCalls ==
    {[fn |-> "subsup_loss", labels |-> ls, label_sets |-> sets, unit |-> u] :
        ls \in SeqsUpTo(Classes, MaxBatch),
        sets \in LabelSets,
        u \in 1..MaxLoss}

CallSubsupLoss ==
    /\ call.fn = "subsup_loss" /\ ret = None
    /\ ret' = subsup_loss(call.labels, call.label_sets, call.unit)
    /\ UNCHANGED <<base, wk, bar, sent, call>>

\* A multi-centroid spread is the list of its clusters' var.mean(), 0 for a
\* degenerate cluster and 1 for any other.
Spreads == UNION {[1..k -> {0, 1}] : k \in 1..MaxCentroids}

\* "if var.mean() == 0: continue": the clusters the loop samples from, in order
MutKeepAll(covs1) == [k \in 1..Len(covs1) |-> k]

KeptClusters(covs1) ==
    SelectSeq([k \in 1..Len(covs1) |-> k], LAMBDA k : covs1[k] # 0)

\* torch.cat(chunks, dim=0) of a non-empty list
RECURSIVE Cat(_)
Cat(chunks) == IF chunks = <<>> THEN <<>> ELSE Head(chunks) \o Cat(Tail(chunks))

\* gmm_sample(means1, covs1, num_sampled_pcls): num_sampled_pcls rows per kept
\* cluster, each row marked with its cluster; torch.cat of an empty list raises
gmm_sample_rows(covs1, n) ==
    LET kept == KeptClusters(covs1)
        sampled_data == [i \in 1..Len(kept) |-> Repeat(kept[i], n)]
    IN IF sampled_data = <<>>
       THEN [err |-> "RuntimeError", rows |-> <<>>]
       ELSE [err |-> "none", rows |-> Cat(sampled_data)]

\* the chunks and labels one class adds to an epoch's synthetic data set in
\* train_task_adaptive_prediction
ClassChunks(m, c, covs1, n) ==
    IF m = "multi-centroid"
    THEN LET kept == KeptClusters(covs1)
         IN [i \in 1..Len(kept) |-> Repeat([cls |-> c, cluster |-> kept[i]], n)]
    ELSE <<Repeat([cls |-> c, cluster |-> 0], n)>>

ClassLabels(m, c, covs1, n) ==
    IF m = "multi-centroid"
    THEN Repeat(c, Len(KeptClusters(covs1)) * n)
    ELSE Repeat(c, n)

RECURSIVE EpochChunks(_, _, _, _)
EpochChunks(m, cs, covs, n) ==
    IF cs = <<>> THEN <<>>
    ELSE ClassChunks(m, Head(cs), covs[Head(cs)], n) \o EpochChunks(m, Tail(cs), covs, n)

RECURSIVE EpochLabels(_, _, _, _)
EpochLabels(m, cs, covs, n) ==
    IF cs = <<>> THEN <<>>
    ELSE ClassLabels(m, Head(cs), covs[Head(cs)], n) \o EpochLabels(m, Tail(cs), covs, n)

\* lines 645-691 of one calibration epoch of task t
sample_epoch(m, t, covs, n) ==
    LET cs == ClassesUpTo(t)
        sampled_data == EpochChunks(m, cs, covs, n)
    IN IF m \notin Recognized
       THEN [err |-> "NotImplementedError", sampled_data |-> <<>>, sampled_label |-> <<>>]
       ELSE IF sampled_data = <<>>
       THEN [err |-> "RuntimeError", sampled_data |-> <<>>, sampled_label |-> <<>>]
       ELSE [err |-> "none", sampled_data |-> Cat(sampled_data),
             sampled_label |-> EpochLabels(m, cs, covs, n)]

GmmSampleCalls ==
    {[fn |-> "gmm_sample", covs1 |-> v, n |-> n] : v \in Spreads, n \in 1..MaxCount}

\* the stored spreads an epoch of task t reads: those of the classes of tasks
\* 0..t, and only in multi-centroid mode their clusters' variances
SpreadsRead(m, t) ==
    LET S == IF m = "multi-centroid" THEN RangeOf(ClassesUpTo(t)) ELSE {}
    IN {[c \in Classes |-> IF c \in S THEN f[c] ELSE <<1>>] : f \in [S -> Spreads]}

SampleEpochCalls ==
    UNION {{[fn |-> "sample_epoch", mode |-> m, task |-> t, covs |-> v] :
               v \in SpreadsRead(m, t)} : m \in Modes, t \in Tasks}

CallGmmSample ==
    /\ call.fn = "gmm_sample" /\ ret = None
    /\ ret' = gmm_sample_rows(call.covs1, call.n)
    /\ UNCHANGED <<base, wk, bar, sent, call>>

CallSampleEpoch ==
    /\ call.fn = "sample_epoch" /\ ret = None
    /\ ret' = sample_epoch(call.mode, call.task, call.covs, num_sampled_pcls)
    /\ UNCHANGED <<base, wk, bar, sent, call>>

\* The constant each step adds to the diagonal of a spread, in units of 1e-6.
Eps4 == 100
Eps6 == 1

\* what the estimators have added to the diagonal of the spread they store:
\* "torch.cov(...) + torch.eye(...) * 1e-4" in covariance and variance mode,
\* nothing in multi-centroid mode (cluster_var = np.var(cluster_data, axis=0))
StoredRidge(m) == IF m \in {"covariance", "variance"} THEN Eps4 ELSE 0

\* mahalanobis_distance: "torch.inverse(cov + (1e-6) * torch.eye(...))", the
\* ridge of the matrix that is inverted
mahalanobis_distance(ridge) == ridge + Eps6

\* distance_to_gmm: "cov = torch.diag(cov)", the addition of 1e-4 being commented
\* out, then mahalanobis_distance
MutGmmRidge(ridge) == mahalanobis_distance(ridge + Eps4)

distance_to_gmm(ridge) == mahalanobis_distance(ridge)

\* MHD_cls on the stored spread of one class
MHD_cls(m) ==
    IF m \in {"covariance", "variance"}
    THEN [err |-> "none", inverted |-> mahalanobis_distance(StoredRidge(m))]
    ELSE IF m = "multi-centroid"
    THEN [err |-> "none", inverted |-> distance_to_gmm(StoredRidge(m))]
    ELSE [err |-> "NotImplementedError", inverted |-> 0]

\* gaussian_wasserstein: "torch.linalg.sqrtm(cov1 @ cov2)" on the two spreads as
\* they are handed in, the ridges of the two factors
gaussian_wasserstein(ridge1, ridge2) == <<ridge1, ridge2>>

\* wsd_gmm_d hands the stored spreads to gaussian_wasserstein
wsd_gmm_d(m) == [err |-> "none", rooted |-> gaussian_wasserstein(StoredRidge(m), StoredRidge(m))]

DistanceCalls ==
    {[fn |-> "MHD_cls", mode |-> m] : m \in Modes}
        \cup {[fn |-> "wsd_gmm_d", mode |-> m] : m \in Recognized}

CallMHDCls ==
    /\ call.fn = "MHD_cls" /\ ret = None
    /\ ret' = MHD_cls(call.mode)
    /\ UNCHANGED <<base, wk, bar, sent, call>>

CallWsdGmmD ==
    /\ call.fn = "wsd_gmm_d" /\ ret = None
    /\ ret' = wsd_gmm_d(call.mode)
    /\ UNCHANGED <<base, wk, bar, sent, call>>

InitCalls ==
    /\ mode = "multi-centroid"
    /\ not_train_ca = FALSE
    /\ train_mask = TRUE
    /\ pc = "call"
    /\ task_id = 0
    /\ epoch = 0
    /\ cls_mean = EmptyStore /\ cls_cov = EmptyStore /\ cls_keys = <<>>
    /\ org_cls_mean = EmptyStore /\ org_cls_cov = EmptyStore /\ org_keys = <<>>
    /\ WSDMatrix = ZeroMatrix
    /\ WSDMatrix_eval = ZeroMatrix
    /\ old_labels = <<>>
    /\ asg = [org |-> {}, eval |-> {}]
    /\ dup = [org |-> FALSE, eval |-> FALSE]
    /\ nzc = [org |-> FALSE, eval |-> FALSE]
    /\ refilled = [org |-> FALSE, eval |-> FALSE]
    /\ replay = 0
    /\ ca = [task |-> 0, epochs |-> 0, steps |-> 0, losses |-> 0, rows |-> 0,
             used |-> 0, unmasked |-> {}, loss |-> {}, err |-> "none"]
    /\ err = "none"
    /\ log = <<>>
    /\ checkpoint = None
    /\ wk = <<>> /\ bar = <<>> /\ sent = <<>>
    /\ call \in SubsupLossCalls \cup GmmSampleCalls \cup SampleEpochCalls
                \cup DistanceCalls
    /\ ret = None

NextCalls ==
    \/ CallSubsupLoss
    \/ CallGmmSample
    \/ CallSampleEpoch
    \/ CallMHDCls
    \/ CallWsdGmmD

SpecCalls == InitCalls /\ [][NextCalls]_vars

\* ------------------------------------------------------------ properties
Events == RangeOf(log)
Idx(ev) == {k \in 1..Len(log) : log[k] = ev}
EpochsBefore(t, k) == Cardinality({l \in Idx(<<"epoch", t>>) : l < k})
Symmetric(W) == \A i, j \in Classes : W[i][j] = W[j][i]
AllNonZero(W, keys) == \A i, j \in RangeOf(keys) : W[i][j] # 0
KeepsNonZero(W, V) == \A i, j \in Classes : W[i][j] # 0 => V[i][j] = W[i][j]

\* C1: after any sequence of estimator and fill calls over a growing set of
\* classes, both distance matrices are symmetric: entry (i,j) equals entry (j,i).
C1_Symmetry == Symmetric(WSDMatrix) /\ Symmetric(WSDMatrix_eval)

C1_Witness ==
    \/ /\ pc = "call_org" /\ refilled.org /\ Len(org_keys) = nb_classes
       /\ \E i, j \in Classes : i # j /\ WSDMatrix[i][j] # 0
    \/ /\ pc = "call_eval" /\ refilled.eval /\ Len(cls_keys) = nb_classes
       /\ \E i, j \in Classes : i # j /\ WSDMatrix_eval[i][j] # 0

\* C2 as claimed: a fill invoked again on an unchanged store leaves the whole
\* matrix as the previous invocation left it.
C2_AsClaimed ==
    [][/\ refilled'.org => WSDMatrix' = WSDMatrix
       /\ refilled'.eval => WSDMatrix_eval' = WSDMatrix_eval]_vars

\* C2 amended: a fill invoked again on an unchanged store leaves every entry that
\* was non-zero after the previous invocation as it was (so the whole matrix when
\* no distance of the stored classes came out as exactly zero).
C2_RefillKeepsNonZero ==
    [][/\ refilled'.org => KeepsNonZero(WSDMatrix, WSDMatrix')
       /\ refilled'.eval => KeepsNonZero(WSDMatrix_eval, WSDMatrix_eval')
       /\ (refilled'.org /\ AllNonZero(WSDMatrix, org_keys)) => WSDMatrix' = WSDMatrix
       /\ (refilled'.eval /\ AllNonZero(WSDMatrix_eval, cls_keys))
             => WSDMatrix_eval' = WSDMatrix_eval]_vars

C2_Witness ==
    \/ refilled.org /\ Len(org_keys) >= 2 /\ AllNonZero(WSDMatrix, org_keys)
    \/ refilled.eval /\ Len(cls_keys) >= 2 /\ AllNonZero(WSDMatrix_eval, cls_keys)

\* C3 as claimed: over the whole run no distance is computed for a pair of
\* classes whose distance was computed before, whatever value it had.
C3_AsClaimed == ~dup.org /\ ~dup.eval

\* C3 amended: once an entry holds a non-zero value, no step of the run changes
\* it and no distance is computed for it again; a pair whose distance came out
\* as zero is computed again at its next visit.
C3_NonZeroComputedOnce ==
    [][/\ KeepsNonZero(WSDMatrix, WSDMatrix')
       /\ KeepsNonZero(WSDMatrix_eval, WSDMatrix_eval')
       /\ ~nzc'.org /\ ~nzc'.eval]_vars

C3_Witness ==
    /\ pc = "done"
    /\ WSDMatrix[0][0] # 0 /\ WSDMatrix_eval[0][0] # 0
    /\ ~dup.org /\ ~dup.eval

HasEntry(means, covs, c) == means[c] # None /\ covs[c] # None
DegenerateClass(covs) ==
    \E c \in Classes : covs[c] # None /\ covs[c].kind = "multi-centroid"
                       /\ covs[c].nondeg = 0

\* C4 as claimed: in each storage mode, on class data whose clusters are not all
\* degenerate, neither estimator stops with an error, and once the driver is
\* past an estimator every class of the task has a mean and a spread in its store.
C4_AsClaimed ==
    mode \in Recognized =>
    /\ (err \in {"KeyError", "sample"})
          => (DegenerateClass(org_cls_cov) \/ DegenerateClass(cls_cov))
    /\ pc = "train"
          => \A c \in RangeOf(class_mask[task_id]) : HasEntry(org_cls_mean, org_cls_cov, c)
    /\ pc \in {"preca", "ca", "eval", "ckpt"}
          => \A c \in RangeOf(class_mask[task_id]) : HasEntry(cls_mean, cls_cov, c)

\* C5 as claimed: in every task both estimator calls (each with its fill) come
\* after all the task's training epochs and before the task's calibration.
C5_AsClaimed ==
    \A t \in Tasks : \A est \in {"org", "mean"} : \A k \in Idx(<<est, t>>) :
        /\ EpochsBefore(t, k) = Epochs
        /\ \A kc \in Idx(<<"ca", t>>) : k < kc

\* C5 amended: in every task the adapting-model estimator and its fill come after
\* all the task's training epochs and before the task's pre-calibration
\* evaluation and calibration; the original-backbone estimator and its fill come
\* before the first training epoch of the task.
C5_EstimationOrder ==
    \A t \in Tasks :
        /\ \A k \in Idx(<<"mean", t>>) :
              /\ EpochsBefore(t, k) = Epochs
              /\ \A kc \in Idx(<<"ca", t>>) \cup Idx(<<"preca", t>>) : k < kc
        /\ \A k \in Idx(<<"org", t>>) :
              /\ EpochsBefore(t, k) = 0
              /\ \A km \in Idx(<<"mean", t>>) : k < km
        /\ (<<"epoch", t>> \in Events) => (<<"org", t>> \in Events)
        /\ (<<"preca", t>> \in Events \/ <<"ca", t>> \in Events)
              => (<<"mean", t>> \in Events)

C5_Witness ==
    /\ <<"ca", NumTasks - 1>> \in Events
    /\ <<"org", NumTasks - 1>> \in Events
    /\ <<"mean", NumTasks - 1>> \in Events

CalibratedOnceBetween(t) ==
    /\ Cardinality(Idx(<<"ca", t>>)) = 1
    /\ \A kc \in Idx(<<"ca", t>>) :
          /\ EpochsBefore(t, kc) = Epochs
          /\ \A km \in Idx(<<"mean", t>>) : km < kc
          /\ \A ke \in Idx(<<"eval", t>>) \cup Idx(<<"ckpt", t>>) : kc < ke

\* C6 as claimed: for every task, the first included, calibration has run exactly
\* once, after training and estimation, when the task's final evaluation is done.
C6_AsClaimed ==
    \A t \in Tasks : (<<"eval", t>> \in Events) => CalibratedOnceBetween(t)

\* C6 amended: for every task after the first, unless calibration is disabled
\* (not_train_ca), calibration has run exactly once, after training and
\* estimation and before the final evaluation and the checkpoint; for the first
\* task, and for every task when calibration is disabled, it does not run.
C6_CalibrationPerTask ==
    \A t \in Tasks :
        /\ (<<"eval", t>> \in Events /\ t > 0 /\ ~not_train_ca) => CalibratedOnceBetween(t)
        /\ (t = 0 \/ not_train_ca) => Idx(<<"ca", t>>) = {}
        /\ Cardinality(Idx(<<"ca", t>>)) <= 1

C6_Witness ==
    /\ pc = "done"
    /\ ~not_train_ca
    /\ \A t \in 1..(NumTasks - 1) : <<"ca", t>> \in Events

\* C7 as claimed: during a training epoch of the task that follows a calibrated
\* task, the buffer cluster_loss reads holds the last calibration epoch's
\* synthetic rows, and the replay slice is not empty.
C7_AsClaimed ==
    \A t \in 1..(NumTasks - 1) :
        (log # <<>> /\ log[Len(log)] = <<"epoch", t>> /\ <<"ca", t - 1>> \in Events)
            => (replay > 0 /\ Len(old_labels) = ca.rows)

\* C8 as claimed: when a calibration has run all its epochs, the steps of the
\* last epoch have used every row of the epoch's synthetic data set.
C8_AsClaimed ==
    (log # <<>> /\ log[Len(log)][1] = "ca" /\ ca.epochs > 0)
        => (ca.used = ca.rows /\ ca.steps * num_sampled_pcls = ca.rows)

KeepsEntries(old, new) == \A c \in Classes : old[c] # None => new[c] = old[c]

\* C9: an entry of either distribution store, once written for a class, is left
\* unchanged by every later step of the run.
C9_EntriesImmutable ==
    [][/\ KeepsEntries(cls_mean, cls_mean') /\ KeepsEntries(cls_cov, cls_cov')
       /\ KeepsEntries(org_cls_mean, org_cls_mean')
       /\ KeepsEntries(org_cls_cov, org_cls_cov')]_vars

C9_Witness ==
    /\ pc = "done"
    /\ \A c \in Classes : HasEntry(cls_mean, cls_cov, c) /\ HasEntry(org_cls_mean, org_cls_cov, c)
    /\ cls_mean[0].task = 0 /\ org_cls_mean[0].task = 0

AllAssigned(keys, a) == \A i, j \in RangeOf(keys) : <<i, j>> \in a

\* C10: when an estimator has returned, every pair (i,j) of classes in its
\* store, two new ones or a new and an older one, has had its matrix entry
\* assigned from a computed distance.
C10_AllPairsAssigned ==
    pc # "crashed" => /\ AllAssigned(org_keys, asg.org)
                      /\ AllAssigned(cls_keys, asg.eval)

TwoNewOneOld(means) ==
    \E a, b, c \in Classes :
        /\ a # b /\ means[a] # None /\ means[b] # None /\ means[c] # None
        /\ means[a].task = means[b].task /\ means[c].task < means[a].task

C10_Witness ==
    \/ pc = "call_org" /\ ~refilled.org /\ TwoNewOneOld(org_cls_mean)
    \/ pc = "call_eval" /\ ~refilled.eval /\ TwoNewOneOld(cls_mean)

DerivedAt(w, k) == wk[w].mean[GatherClasses[k]] # None
GatheredAfterAll ==
    \A w \in Workers : \A k \in 1..Len(GatherClasses) :
        DerivedAt(w, k) =>
            \A r \in Workers : /\ bar[r] >= k
                               /\ Len(sent[r]) >= k
                               /\ sent[r][k] = LocalFeatures(r, GatherClasses[k])
SameGathered ==
    \A w \in Workers : wk[w].pc = "stats" =>
        wk[w].features_per_cls_list
            = [r \in 1..WorldSize |-> LocalFeatures(r - 1, GatherClasses[wk[w].k])]
SameEntries ==
    \A w, r \in Workers : \A c \in RangeOf(GatherClasses) :
        /\ (wk[w].mean[c] # None /\ wk[r].mean[c] # None) => wk[w].mean[c] = wk[r].mean[c]
        /\ (wk[w].cov[c] # None /\ wk[r].cov[c] # None) => wk[w].cov[c] = wk[r].cov[c]

\* C11 as claimed: with W workers, no worker derives a class's statistics before
\* every worker has entered the barrier and handed in its local features for that
\* class, the gathered list is the same on every worker (every rank's features,
\* in rank order), and the entries the workers store for a class are identical.
C11_AsClaimed == GatheredAfterAll /\ SameGathered /\ SameEntries

\* C12: a calibration step whose loss is not finite ends the process with a
\* failure status at once: no optimizer step is taken for that loss, no further
\* step or epoch of the calibration runs, and neither the calibration, nor a final
\* evaluation, nor a checkpoint of that task is completed; nothing follows.
C12_NonFiniteLossStops ==
    [][/\ ca.err # "loss"
       /\ ca'.err = "loss" =>
            /\ pc' = "crashed" /\ err' = "loss"
            /\ ca'.steps = ca'.losses - 1
            /\ ca'.epochs < CrctEpochs
            /\ checkpoint' = checkpoint
            /\ \A ph \in {"ca", "eval", "ckpt"} : <<ph, task_id'>> \notin RangeOf(log')]_vars

C12_Witness ==
    /\ pc = "crashed" /\ ca.err = "loss"
    /\ task_id = 2 /\ ca.epochs = 1 /\ ca.steps = 1 /\ ca.losses = 2
    /\ <<"preca", 2>> \in Events /\ <<"ckpt", 1>> \in Events

\* C13 as claimed: under a storage mode that is none of the three, neither
\* estimator completes (each signals an error instead of returning with nothing
\* stored), the calibration does not complete, and no task reaches its
\* checkpoint, also the first task and also with calibration disabled.
C13_AsClaimed ==
    mode \notin Recognized =>
        \A t \in Tasks : \A ph \in {"org", "mean", "ca", "ckpt"} : <<ph, t>> \notin Events

JustSaved == log # <<>> /\ log[Len(log)][1] = "ckpt"
Holds(sd, ks, v) == \E k \in ks : sd[k] = v
StoredUpTo(store, t) == \A c \in RangeOf(ClassesUpTo(t)) : store[c] # None

\* C14 as claimed: the checkpoint written at the end of task t holds, under keys
\* of their own, both distance matrices and the mean and spread stores of both
\* distribution sets, each store with an entry for every class of tasks 0..t.
C14_AsClaimed ==
    JustSaved =>
        LET sd == checkpoint.state_dict
            ks == (MatrixKeys \cup StoreKeys) \cap DOMAIN sd
        IN \E k1, k2 \in ks \cap MatrixKeys :
              /\ k1 # k2 /\ sd[k1] = WSDMatrix_eval /\ sd[k2] = WSDMatrix
              /\ \E k3, k4 \in (ks \cap StoreKeys) \ {k1, k2} :
                    /\ k3 # k4 /\ sd[k3] = cls_mean /\ sd[k4] = cls_cov
                    /\ StoredUpTo(sd[k3], checkpoint.task)
                    /\ StoredUpTo(sd[k4], checkpoint.task)
                    /\ \E k5, k6 \in (ks \cap StoreKeys) \ {k1, k2, k3, k4} :
                          /\ k5 # k6 /\ sd[k5] = org_cls_mean /\ sd[k6] = org_cls_cov
                          /\ StoredUpTo(sd[k5], checkpoint.task)
                          /\ StoredUpTo(sd[k6], checkpoint.task)

\* C15 as claimed: in every calibration step of task t, whatever the
\* configuration, the classes whose logits are left unmasked are exactly the
\* classes of tasks 0..t.
C15_AsClaimed ==
    ca.losses > 0 => ca.unmasked = RangeOf(ClassesUpTo(ca.task))

\* C15 amended: in every calibration step of task t, when train_mask is set the
\* classes whose logits are left unmasked are exactly the classes of tasks 0..t;
\* when train_mask is not set no logit is masked.
C15_MaskWhenEnabled ==
    ca.losses > 0 =>
        /\ train_mask => ca.unmasked = RangeOf(ClassesUpTo(ca.task))
        /\ ~train_mask => ca.unmasked = Classes

C15_Witness ==
    /\ train_mask /\ ca.losses > 0 /\ ca.task = 1 /\ ca.err = "none"
    /\ ca.unmasked = {0, 1} /\ ca.unmasked # Classes
    /\ log[Len(log)] = <<"ca", 1>>

\* C16 as claimed: the loss of each calibration step is the cross-entropy on the
\* synthetic minibatch plus the distance-weighted contrastive loss on it.
C16_AsClaimed ==
    ca.losses > 0 => ca.loss = {"cross_entropy", "cluster_loss"}

\* C16 amended: the loss of each calibration step is the cross-entropy on the
\* synthetic minibatch alone; no contrastive term is added to it.
C16_CrossEntropyOnly ==
    ca.losses > 0 => ca.loss = {"cross_entropy"}

C16_Witness ==
    /\ ca.losses = 2 /\ ca.steps = 2 /\ ca.epochs = CrctEpochs /\ ca.err = "none"
    /\ ca.loss # {} /\ log[Len(log)] = <<"ca", 2>>

Returned(fn) == call # None /\ call.fn = fn /\ ret # None
Matching(labels, label_sets) ==
    {k \in 1..Len(label_sets) : Restrict(labels, label_sets[k]) # <<>>}
RECURSIVE SumOver(_, _, _)
SumOver(K, labels, label_sets) ==
    IF K = {} THEN 0
    ELSE LET k == CHOOSE x \in K : TRUE
         IN (IF HasPositivePair(Restrict(labels, label_sets[k])) THEN call.unit ELSE 0)
            + SumOver(K \ {k}, labels, label_sets)

\* C17 as claimed: subsup_loss completes without error on every batch and every
\* list of label subsets, also when no subset matches a batch member, and its
\* value is the sum of the losses of the subsets that match at least one batch
\* member divided by the number of those subsets.
C17_AsClaimed ==
    Returned("subsup_loss") =>
        LET K == Matching(call.labels, call.label_sets)
        IN /\ ret.err = "none"
           /\ K # {} => /\ ret.den # 0
                        /\ ret.num * Cardinality(K)
                             = SumOver(K, call.labels, call.label_sets) * ret.den

Degenerate(covs1) == {k \in 1..Len(covs1) : covs1[k] = 0}

\* C18 as claimed: in multi-centroid mode the sampler and the calibration's
\* sampling loop take no row from a degenerate centroid and complete without
\* error for every combination of degenerate and non-degenerate centroids, a
\* class all of whose centroids are degenerate included.
C18_AsClaimed ==
    /\ Returned("gmm_sample") =>
          /\ ret.err = "none"
          /\ \A x \in RangeOf(ret.rows) : x \notin Degenerate(call.covs1)
    /\ (Returned("sample_epoch") /\ call.mode = "multi-centroid") =>
          /\ ret.err = "none"
          /\ \A x \in RangeOf(ret.sampled_data) :
                x.cluster \notin Degenerate(call.covs[x.cls])

RowsOf(data, c) == Cardinality({i \in 1..Len(data) : data[i].cls = c})
LabelsEqual(labels, c) == Cardinality({i \in 1..Len(labels) : labels[i] = c})

\* C19: for a K-centroid spread with m < K degenerate centroids and a count N the
\* sampler returns exactly (K - m) * N vectors (K * N when m = 0); one epoch of
\* calibration sampling appends for every class as many labels as synthetic
\* vectors, so the data and label sequences have the same length.
C19_SampleCounts ==
    /\ (Returned("gmm_sample") /\ Cardinality(Degenerate(call.covs1)) < Len(call.covs1)) =>
          /\ ret.err = "none"
          /\ Len(ret.rows)
               = (Len(call.covs1) - Cardinality(Degenerate(call.covs1))) * call.n
    /\ (Returned("sample_epoch") /\ ret.err = "none") =>
          /\ Len(ret.sampled_data) = Len(ret.sampled_label)
          /\ \A c \in Classes :
                RowsOf(ret.sampled_data, c) = LabelsEqual(ret.sampled_label, c)

C19_Witness ==
    /\ Returned("gmm_sample")
    /\ Len(call.covs1) = 2 /\ Degenerate(call.covs1) = {1} /\ call.n = 2
    /\ ret.rows = <<2, 2>>

\* C20 as claimed: in all three storage modes, every spread that reaches the
\* matrix inversion of the Mahalanobis distance or the matrix square root of the
\* closed-form Wasserstein distance has had 1e-4 added to its diagonal before.
C20_AsClaimed ==
    /\ (Returned("MHD_cls") /\ ret.err = "none") => ret.inverted >= Eps4
    /\ Returned("wsd_gmm_d") => \A k \in 1..2 : ret.rooted[k] >= Eps4

\* C20 amended: every spread that reaches the matrix inversion of the Mahalanobis
\* distance has had a positive constant added to its diagonal before: 1e-4 (at
\* estimation) and 1e-6 (at the inversion) in covariance and variance mode, 1e-6
\* alone in multi-centroid mode; the closed-form Wasserstein distance adds
\* nothing to the spreads it is given, which carry 1e-4 in covariance and
\* variance mode only.
C20_RidgeBeforeInverse ==
    /\ (Returned("MHD_cls") /\ ret.err = "none") =>
          /\ ret.inverted > 0
          /\ call.mode \in {"covariance", "variance"} => ret.inverted = Eps4 + Eps6
          /\ call.mode = "multi-centroid" => ret.inverted = Eps6
    /\ Returned("wsd_gmm_d") =>
          \A k \in 1..2 :
             ret.rooted[k] = IF call.mode \in {"covariance", "variance"} THEN Eps4 ELSE 0

C20_Witness ==
    /\ Returned("MHD_cls") /\ call.mode = "multi-centroid"
    /\ ret.err = "none" /\ ret.inverted = Eps6 /\ ret.inverted < Eps4


\* C21: under each of the three storage modes, whenever an ordinary-training
\* epoch of task t is about to run or has just run, every entry (a, b) of
\* WSDMatrix that the taxonomy-scoped loss reads for two labels of the batch
\* (the labels of task t and the replayed rows of old_labels) has already
\* been assigned by update_WSM, so no weight is derived from an entry that
\* was never computed.
InTraining ==
    \/ pc = "train"
    \/ log # <<>> /\ log[Len(log)] = <<"epoch", task_id>>

DiagonalAssigned(keys, a) == \A c \in RangeOf(keys) : <<c, c>> \in a

SameLabelWeight(c) == weight_matrix(<<c, c>>, Gamma(WSDMatrix))[1][2]

====
